---- MODULE Spec2Model ----
(***************************************************************************)
(* A model of sigexport's ingestion pipeline (data.fetch_data) and of its  *)
(* group metadata export (main.export_channel_metadata).                   *)
(*                                                                         *)
(* Values.  A nullable value (a SQL cell, an Optional argument) is a set   *)
(* of at most one element: None is {}, a present value v is {v}.  A Python *)
(* str that the program splits, or compares with the tokens of a split, is *)
(* a sequence of one-character strings; an opaque tag (a row's type, a     *)
(* statement, an exception's name) is a TLA+ string.  A dict is a function.*)
(***************************************************************************)
EXTENDS Integers, Sequences, FiniteSets, TLC

VARIABLES
    pc,                    \* where the modelled function stands
    err,                   \* the exception that ended it, None while none has
    key,                   \* fetch_data's key argument / local
    chats,                 \* fetch_data's chats argument
    include_empty,         \* fetch_data's include_empty argument
    include_disappearing,  \* fetch_data's include_disappearing argument
    dbOpen,                \* the store handle db is open
    executed,              \* the statements the cursor c has executed, in order
    result,                \* the loop variable result: the row last yielded, if any
    nConv,                 \* conversation rows yielded so far
    nMsg,                  \* message rows yielded so far
    contacts,              \* the dict contacts: id -> Contact
    convos,                \* the dict convos: id -> list of RawMessage
    owner,                 \* export_channel_metadata's owner argument
    include_chats,         \* export_channel_metadata's include_chats argument
    items,                 \* the keys of contacts in the dict's order
    pos,                   \* contacts.items() entries consumed so far
    group_meta,            \* the local group_meta of the last exported group
    dirs,                  \* directories that exist under dest
    files                  \* files under dest: <<directory, name>> -> content

fetchVars == <<key, chats, include_empty, include_disappearing, dbOpen,
               executed, result, nConv, nMsg, convos>>
metaVars == <<owner, include_chats, items, pos, group_meta, dirs, files>>
vars == <<pc, err, contacts, fetchVars, metaVars>>

---------------------------------------------------------------------------
(* Bounds of the exploration. *)

MaxConvRows == 2
MaxMsgRows == 2
MaxGroups == 2

---------------------------------------------------------------------------
(* Python values. *)

None == {}
Some(v) == {v}
Val(o) == CHOOSE v \in o : TRUE

\* bool(x) of an Optional[str]: None and "" are falsy
TruthyStr(o) == o # None /\ o # Some(<<>>)

\* bool(x) of an Optional[int]: None and 0 are falsy
TruthyInt(o) == o # None /\ o # Some(0)

\* x in lst, for an Optional[str] x and a list of str lst
InList(o, lst) == \E i \in 1..Len(lst) : o = Some(lst[i])

RECURSIVE SplitFrom(_, _, _, _)
SplitFrom(s, sep, cur, acc) ==
    IF s = <<>> THEN Append(acc, cur)
    ELSE IF Head(s) = sep THEN SplitFrom(Tail(s), sep, <<>>, Append(acc, cur))
    ELSE SplitFrom(Tail(s), sep, Append(cur, Head(s)), acc)

\* str.split(sep) with a one-character separator: empty tokens are kept
Split(s, sep) == SplitFrom(s, sep, <<>>, <<>>)

---------------------------------------------------------------------------
(* Session Establisher. *)

\* the key handed to fetch_data, or resolved by crypto.get_key
TheKey == <<"k">>

SessionStatementsKeyLast ==
    << "PRAGMA cipher_page_size = 4096",
       "PRAGMA kdf_iter = 64000",
       "PRAGMA cipher_hmac_algorithm = HMAC_SHA512",
       "PRAGMA cipher_kdf_algorithm = PBKDF2_HMAC_SHA512",
       "PRAGMA KEY" >>

\* the statements fetch_data executes before its first query, in order
SessionStatements ==
    << "PRAGMA KEY",
       "PRAGMA cipher_page_size = 4096",
       "PRAGMA kdf_iter = 64000",
       "PRAGMA cipher_hmac_algorithm = HMAC_SHA512",
       "PRAGMA cipher_kdf_algorithm = PBKDF2_HMAC_SHA512" >>

SelectConversations == "SELECT ... FROM conversations"
SelectMessages == "SELECT ... FROM messages ORDER BY sent_at"

\* if key is None: key = crypto.get_key(...), which returns a key or raises
ResolveKey ==
    /\ pc = "start"
    /\ \/ /\ key # None
          /\ pc' = "connect"
          /\ UNCHANGED <<key, err>>
       \/ /\ key = None
          /\ key' = Some(TheKey)
          /\ pc' = "connect"
          /\ UNCHANGED err
       \/ /\ key = None
          /\ pc' = "error"
          /\ err' = Some("Exit")
          /\ UNCHANGED key
    /\ UNCHANGED <<chats, include_empty, include_disappearing, dbOpen, executed,
                   result, nConv, nMsg, convos, contacts, metaVars>>

\* db = dbapi2.connect(...); c = db.cursor()
Connect ==
    /\ pc = "connect"
    /\ dbOpen' = TRUE
    /\ pc' = "session"
    /\ UNCHANGED <<err, key, chats, include_empty, include_disappearing, executed,
                   result, nConv, nMsg, convos, contacts, metaVars>>

\* one c.execute("PRAGMA ...")
ExecPragma ==
    /\ pc = "session"
    /\ Len(executed) < Len(SessionStatements)
    /\ executed' = Append(executed, SessionStatements[Len(executed) + 1])
    /\ pc' = IF Len(executed') = Len(SessionStatements)
             THEN "select_conversations" ELSE "session"
    /\ UNCHANGED <<err, key, chats, include_empty, include_disappearing, dbOpen,
                   result, nConv, nMsg, convos, contacts, metaVars>>

\* c.execute(query) on conversations: the first statement that reads the
\* store, so the one that raises when the key or the cipher settings are wrong
ExecConversationsQuery ==
    /\ pc = "select_conversations"
    /\ executed' = Append(executed, SelectConversations)
    /\ \/ pc' = "conversations" /\ UNCHANGED err
       \/ pc' = "error" /\ err' = Some("DatabaseError")
    /\ UNCHANGED <<key, chats, include_empty, include_disappearing, dbOpen,
                   result, nConv, nMsg, convos, contacts, metaVars>>

---------------------------------------------------------------------------
(* Contact Normalizer. *)

MakeContactEmptyFallback(row) ==
    LET members == IF TruthyStr(row.members)
                   THEN Split(Val(row.members), " ") ELSE <<>>
        c == [id |-> row.id, serviceId |-> row.serviceId, name |-> row.name,
              number |-> row.e164, profile_name |-> row.profileName,
              members |-> members, is_group |-> (row.type = Some("group"))]
    IN IF ~TruthyStr(c.name) THEN [c EXCEPT !.name = c.profile_name] ELSE c

\* models.Contact(...) of a conversation row, then the name fallback
MakeContact(row) ==
    LET members == IF TruthyStr(row.members)
                   THEN Split(Val(row.members), " ") ELSE <<>>
        c == [id |-> row.id, serviceId |-> row.serviceId, name |-> row.name,
              number |-> row.e164, profile_name |-> row.profileName,
              members |-> members, is_group |-> (row.type = Some("group"))]
    IN IF c.name = None THEN [c EXCEPT !.name = c.profile_name] ELSE c

\* chats.split(",") if len(chats) > 0 else []
ChatsList(c) == IF Len(c) > 0 THEN Split(c, ",") ELSE <<>>

\* not chats or (result[4] in chats_list or result[5] in chats_list)
Retained(row, c) ==
    \/ c = <<>>
    \/ InList(row.name, ChatsList(c))
    \/ InList(row.profileName, ChatsList(c))

\* the conversation rows the store may hold; id is the table's primary key
ConvIds == {Some(<<>>), Some(<<"1">>)}
ConvNames == {None, Some(<<>>), Some(<<"A">>)}
ConvProfileNames == {None, Some(<<"B">>)}

ConvRow ==
    { [type |-> Some("private"), id |-> i, serviceId |-> Some(<<"s">>),
       e164 |-> None, name |-> n, profileName |-> p, members |-> None] :
         i \in ConvIds, n \in ConvNames, p \in ConvProfileNames }

\* one iteration of "for result in c" over the conversations
NormalizeRow ==
    /\ pc = "conversations"
    /\ nConv < MaxConvRows
    /\ \E row \in ConvRow :
          /\ row.id \notin DOMAIN contacts
          /\ result' = Some(row)
          /\ contacts' = [cid \in DOMAIN contacts \cup {row.id} |->
                             IF cid = row.id THEN MakeContact(row)
                             ELSE contacts[cid]]
          /\ convos' = IF Retained(row, chats)
                       THEN [cid \in DOMAIN convos \cup {row.id} |->
                                IF cid = row.id THEN <<>> ELSE convos[cid]]
                       ELSE convos
    /\ nConv' = nConv + 1
    /\ UNCHANGED <<pc, err, key, chats, include_empty, include_disappearing,
                   dbOpen, executed, nMsg, metaVars>>

\* the conversations are exhausted; c.execute(query) on messages
ExecMessagesQuery ==
    /\ pc = "conversations"
    /\ executed' = Append(executed, SelectMessages)
    /\ pc' = "messages"
    /\ UNCHANGED <<err, key, chats, include_empty, include_disappearing, dbOpen,
                   result, nConv, nMsg, convos, contacts, metaVars>>

---------------------------------------------------------------------------
(* Message Ingestor. *)

\* The json column: text that json.loads rejects, or a serialized object, here
\* one that holds attachments and none of the other keys fetch_data reads.
Malformed == [kind |-> "malformed"]
Document == [kind |-> "object", doc |-> [attachments |-> <<"att">>]]

\* json.loads(cell) returns
JsonDecodes(cell) == cell.kind # "malformed"

\* jsonLoaded.get(k, default)
Get(cell, k, default) ==
    IF k \in DOMAIN cell.doc THEN cell.doc[k] ELSE default

ExcludedTypesWithoutNull == {Some("keychange"), Some("profile-change")}

\* ["keychange", "profile-change", None]
ExcludedTypes == {Some("keychange"), Some("profile-change"), None}

\* cid and cid in convos
KnownConversation(cid, cv) == TruthyStr(cid) /\ cid \in DOMAIN cv

PayloadRaisesWhenKnown(row, cv) ==
    KnownConversation(row.conversationId, cv) /\ ~JsonDecodes(row.json)

\* jsonLoaded = json.loads(result[2]) raises, before cid is looked at
PayloadRaises(row, cv) == ~JsonDecodes(row.json)

DropsExpiringAlways(timer, flag) == TruthyInt(timer)

\* expireTimer and not include_disappearing
DropsExpiring(timer, flag) == TruthyInt(timer) /\ ~flag

\* models.RawMessage(...)
MakeRawMessage(row) ==
    [conversation_id |-> row.conversationId, id |-> row.id, type |-> row.type,
     body |-> row.body, source |-> row.sourceServiceId,
     timestamp |-> row.timestamp, sent_at |-> row.sent_at,
     server_timestamp |-> row.serverTimestamp,
     has_attachments |-> row.hasAttachments,
     attachments |-> Get(row.json, "attachments", <<>>),
     read_status |-> row.readStatus, seen_status |-> row.seenStatus,
     call_history |-> Get(row.json, "call_history", None),
     reactions |-> Get(row.json, "reactions", <<>>),
     sticker |-> Get(row.json, "sticker", None),
     quote |-> Get(row.json, "quote", None)]

\* the message rows the store may yield as its n-th row (ORDER BY sent_at)
MsgConvIds == {None, Some(<<>>), Some(<<"1">>), Some(<<"9">>)}
MsgTypes == {None, Some("keychange"), Some("profile-change"), Some("incoming")}
MsgTimers == {None, Some(0), Some(30)}
MsgPayloads == {Malformed, Document}

MsgRow(n) ==
    { [conversationId |-> cid, type |-> t, json |-> j, id |-> Some(n),
       body |-> Some(<<"b">>), sourceServiceId |-> Some(<<"s">>),
       timestamp |-> Some(n), sent_at |-> Some(n), serverTimestamp |-> Some(n),
       hasAttachments |-> Some(0), readStatus |-> None, seenStatus |-> None,
       expireTimer |-> x] :
         cid \in MsgConvIds, t \in MsgTypes, j \in MsgPayloads, x \in MsgTimers }

\* one iteration of "for result in c" over the messages
IngestRow ==
    /\ pc = "messages"
    /\ nMsg < MaxMsgRows
    /\ \E row \in MsgRow(nMsg + 1) :
          /\ result' = Some(row)
          /\ IF PayloadRaises(row, convos)
             THEN pc' = "error" /\ err' = Some("JSONDecodeError")
                  /\ UNCHANGED convos
             ELSE IF /\ KnownConversation(row.conversationId, convos)
                     /\ row.type \notin ExcludedTypes
                     /\ ~DropsExpiring(row.expireTimer, include_disappearing)
             THEN /\ convos' = [convos EXCEPT ![row.conversationId] =
                                   Append(@, MakeRawMessage(row))]
                  /\ UNCHANGED <<pc, err>>
             ELSE UNCHANGED <<pc, err, convos>>
    /\ nMsg' = nMsg + 1
    /\ UNCHANGED <<key, chats, include_empty, include_disappearing, dbOpen,
                   executed, nConv, contacts, metaVars>>

---------------------------------------------------------------------------
(* Conversation Pruner. *)

PruneShort(cv, flag) ==
    IF ~flag
    THEN [cid \in {k \in DOMAIN cv : Len(cv[k]) > 1} |-> cv[cid]]
    ELSE cv

\* if not include_empty: convos = {key: val for ... if len(val) > 0}
Prune(cv, flag) ==
    IF ~flag
    THEN [cid \in {k \in DOMAIN cv : Len(cv[k]) > 0} |-> cv[cid]]
    ELSE cv

\* the messages are exhausted; prune and return convos, contacts
Return ==
    /\ pc = "messages"
    /\ convos' = Prune(convos, include_empty)
    /\ pc' = "done"
    /\ UNCHANGED <<err, key, chats, include_empty, include_disappearing, dbOpen,
                   executed, result, nConv, nMsg, contacts, metaVars>>

---------------------------------------------------------------------------
(* fetch_data as a state machine. *)

ChatsArguments == {<<>>, <<"A", ",", "B">>}

MetaIdle ==
    /\ owner = None
    /\ include_chats = None
    /\ items = <<>>
    /\ pos = 0
    /\ group_meta = None
    /\ dirs = {}
    /\ files = <<>>

Init ==
    /\ pc = "start"
    /\ err = None
    /\ key \in {None, Some(TheKey)}
    /\ chats \in ChatsArguments
    /\ include_empty \in BOOLEAN
    /\ include_disappearing \in BOOLEAN
    /\ dbOpen = FALSE
    /\ executed = <<>>
    /\ result = None
    /\ nConv = 0
    /\ nMsg = 0
    /\ contacts = <<>>
    /\ convos = <<>>
    /\ MetaIdle

Next ==
    \/ ResolveKey
    \/ Connect
    \/ ExecPragma
    \/ ExecConversationsQuery
    \/ NormalizeRow
    \/ ExecMessagesQuery
    \/ IngestRow
    \/ Return

Spec == Init /\ [][Next]_vars

---------------------------------------------------------------------------
(* Group Metadata Cross-Referencer. *)

Elems(seq) == {seq[i] : i \in 1..Len(seq)}

\* [f(x) for x in seq]
RECURSIVE NamesOf(_)
NamesOf(seq) ==
    IF seq = <<>> THEN <<>> ELSE <<Head(seq).name>> \o NamesOf(Tail(seq))

\* contacts.values(), in the dict's order
Values == [i \in 1..Len(items) |-> contacts[items[i]]]

\* contacts_by_serviceId = {c.serviceId: c for c in contacts.values()}:
\* m is a key of it, and the value it holds for m (the last one set)
HasServiceId(m) == \E i \in 1..Len(items) : Values[i].serviceId = Some(m)
ByServiceId(m) ==
    Values[CHOOSE i \in 1..Len(items) :
              /\ Values[i].serviceId = Some(m)
              /\ \A j \in (i + 1)..Len(items) : Values[j].serviceId # Some(m)]

\* all_groups = [g for g in contacts.values() if g.is_group]
IsGroup(g) == g.is_group
AllGroups == SelectSeq(Values, IsGroup)

OtherGroupsOwnerFree(k, member) ==
    LET Keeps(g) == /\ member.serviceId # None
                    /\ Val(member.serviceId) \in Elems(g.members)
                    /\ k # g.id
                    /\ member.serviceId # owner.serviceId
                    /\ ~(/\ owner.serviceId # None
                         /\ Val(owner.serviceId) \in Elems(g.members))
    IN NamesOf(SelectSeq(AllGroups, Keeps))

OtherGroupsWithSelf(k, member) ==
    LET Keeps(g) == /\ member.serviceId # None
                    /\ Val(member.serviceId) \in Elems(g.members)
                    /\ member.serviceId # owner.serviceId
    IN NamesOf(SelectSeq(AllGroups, Keeps))

\* [g.name for g in all_groups if member.serviceId in g.members
\*  if key != g.id and member.serviceId != owner.serviceId]
OtherGroups(k, member) ==
    LET Keeps(g) == /\ member.serviceId # None
                    /\ Val(member.serviceId) \in Elems(g.members)
                    /\ k # g.id
                    /\ member.serviceId # owner.serviceId
    IN NamesOf(SelectSeq(AllGroups, Keeps))

\* datetime.now().isoformat()
Now == "now"

\* the dict group_meta of the group c stored under key k
GroupMeta(k, c) ==
    [name |-> c.name,
     exported_by |-> owner.profile_name,
     exported_on |-> Now,
     members |-> [i \in 1..Len(c.members) |->
                    LET member == ByServiceId(c.members[i]) IN
                    [name |-> member.name,
                     display_name |-> member.profile_name,
                     number |-> member.number,
                     other_groups |-> OtherGroups(k, member)]]]

\* the list flat_meta, one dict per member
FlatMeta(gm) ==
    [i \in 1..Len(gm.members) |->
        [group_name |-> gm.name,
         exported_by |-> gm.exported_by,
         exported_on |-> gm.exported_on,
         num_shared_groups |-> Len(gm.members[i].other_groups),
         name |-> gm.members[i].name,
         display_name |-> gm.members[i].display_name,
         number |-> gm.members[i].number,
         other_groups |-> gm.members[i].other_groups]]

\* flat_meta[0].keys()
FieldNames == <<"group_name", "exported_by", "exported_on", "num_shared_groups",
                "name", "display_name", "number", "other_groups">>

\* a file opened with "w" and not written to yet
EmptyFile == [header |-> <<>>, rows |-> <<>>]

\* the group check and the restriction check at the top of the loop body
Qualifies(c) ==
    /\ c.is_group
    /\ IF include_chats = None THEN TRUE ELSE InList(c.name, Val(include_chats))

\* an iteration of the loop that takes one of the two "continue"s
SkipContact ==
    /\ pc = "export"
    /\ pos < Len(items)
    /\ ~Qualifies(contacts[items[pos + 1]])
    /\ pos' = pos + 1
    /\ UNCHANGED <<pc, err, contacts, fetchVars, owner, include_chats, items,
                   group_meta, dirs, files>>

\* an iteration of the loop for a qualifying group, to its end or to the
\* exception that ends the export
ExportGroup ==
    /\ pc = "export"
    /\ pos < Len(items)
    /\ LET k == items[pos + 1]
           c == contacts[k]
           gm == GroupMeta(k, c)
           flat == FlatMeta(gm)
           dir == Val(c.name)
       IN /\ Qualifies(c)
          /\ pos' = pos + 1
          /\ IF c.name = None
             THEN \* dest / c.name
                  /\ pc' = "error" /\ err' = Some("TypeError")
                  /\ UNCHANGED <<group_meta, dirs, files>>
             ELSE IF \E i \in 1..Len(c.members) : ~HasServiceId(c.members[i])
             THEN \* contacts_by_serviceId[m]
                  /\ pc' = "error" /\ err' = Some("KeyError")
                  /\ dirs' = dirs \cup {dir}
                  /\ UNCHANGED <<group_meta, files>>
             ELSE IF flat = <<>>
             THEN \* meta.json is written, members.csv is opened, flat_meta[0]
                  /\ pc' = "error" /\ err' = Some("IndexError")
                  /\ dirs' = dirs \cup {dir}
                  /\ group_meta' = Some(gm)
                  /\ files' = [f \in DOMAIN files \cup
                                     {<<dir, "meta.json">>, <<dir, "members.csv">>} |->
                                 IF f = <<dir, "meta.json">> THEN gm
                                 ELSE IF f = <<dir, "members.csv">> THEN EmptyFile
                                 ELSE files[f]]
             ELSE /\ UNCHANGED <<pc, err>>
                  /\ dirs' = dirs \cup {dir}
                  /\ group_meta' = Some(gm)
                  /\ files' = [f \in DOMAIN files \cup
                                     {<<dir, "meta.json">>, <<dir, "members.csv">>} |->
                                 IF f = <<dir, "meta.json">> THEN gm
                                 ELSE IF f = <<dir, "members.csv">>
                                 THEN [header |-> FieldNames, rows |-> flat]
                                 ELSE files[f]]
    /\ UNCHANGED <<contacts, fetchVars, owner, include_chats, items>>

\* contacts.items() is exhausted: export_channel_metadata returns
ExportDone ==
    /\ pc = "export"
    /\ pos = Len(items)
    /\ pc' = "done"
    /\ UNCHANGED <<err, contacts, fetchVars, metaVars>>

---------------------------------------------------------------------------
(* export_channel_metadata as a state machine: the contacts it is given are *)
(* those fetch_data makes of three direct conversations and of up to        *)
(* MaxGroups groups.                                                        *)

Digits == <<"1", "2", "3", "4", "5">>
PersonIds == <<"o", "a", "b">>
\* "z" is a service id no conversation row carries
MemberIds == <<"o", "a", "b", "z">>

PersonRow(i) ==
    [type |-> Some("private"), id |-> Some(<<"p", Digits[i]>>),
     serviceId |-> Some(<<PersonIds[i]>>), e164 |-> Some(<<"+", Digits[i]>>),
     name |-> IF i = 1 THEN None ELSE Some(<<"N", Digits[i]>>),
     profileName |-> Some(<<"P", Digits[i]>>), members |-> None]

RECURSIVE JoinIds(_, _)
\* the ids of MemberIds at the indices of S, from index i on, joined by " "
JoinIds(S, i) ==
    IF i > Len(MemberIds) THEN <<>>
    ELSE LET rest == JoinIds(S, i + 1) IN
         IF i \notin S THEN rest
         ELSE IF rest = <<>> THEN <<MemberIds[i]>>
         ELSE <<MemberIds[i], " ">> \o rest

\* the members column of a group row
MemberCells ==
    {None} \cup {Some(JoinIds(S, 1)) : S \in SUBSET (1..Len(MemberIds)) \ {{}}}

GroupNames == {Some(<<"G">>), Some(<<"H">>)}

GroupRow(i, n, m) ==
    [type |-> Some("group"), id |-> Some(<<"g", Digits[i]>>), serviceId |-> None,
     e164 |-> None, name |-> n, profileName |-> None, members |-> m]

\* include_chats: absent, or chats.split(",") as main passes it
IncludeChatsArguments ==
    {None} \cup {Some(Split(c, ",")) : c \in {<<>>, <<"G">>, <<"G", ",", "H">>}}

InitMeta ==
    /\ pc = "export"
    /\ err = None
    /\ key = None
    /\ chats = <<>>
    /\ include_empty = FALSE
    /\ include_disappearing = FALSE
    /\ dbOpen = FALSE
    /\ executed = <<>>
    /\ result = None
    /\ nConv = 0
    /\ nMsg = 0
    /\ convos = <<>>
    /\ \E n \in 1..MaxGroups :
       \E names \in [1..n -> GroupNames], cells \in [1..n -> MemberCells] :
          LET rows == [i \in 1..(Len(PersonIds) + n) |->
                         IF i <= Len(PersonIds) THEN PersonRow(i)
                         ELSE GroupRow(i - Len(PersonIds),
                                       names[i - Len(PersonIds)],
                                       cells[i - Len(PersonIds)])]
          IN /\ items = [i \in 1..Len(rows) |-> rows[i].id]
             /\ contacts = [cid \in {rows[i].id : i \in 1..Len(rows)} |->
                              MakeContact(CHOOSE r \in Elems(rows) : r.id = cid)]
             /\ owner \in {MakeContact(PersonRow(1)), MakeContact(PersonRow(2))}
    /\ include_chats \in IncludeChatsArguments
    /\ pos = 0
    /\ group_meta = None
    /\ dirs = {}
    /\ files = <<>>

NextMeta ==
    \/ SkipContact
    \/ ExportGroup
    \/ ExportDone

SpecMeta == InitMeta /\ [][NextMeta]_vars

---------------------------------------------------------------------------
(* Properties of export_channel_metadata. *)

\* every declared member of the group c has a Contact
Resolvable(c) == \A i \in 1..Len(c.members) : HasServiceId(c.members[i])

\* an iteration of the export loop has just built group_meta for the group
\* stored under items[pos']
ExportedStep ==
    /\ pc = "export"
    /\ pos' = pos + 1
    /\ Qualifies(contacts[items[pos + 1]])
    /\ Resolvable(contacts[items[pos + 1]])

\* group_meta is that of the group under items[pos], built by the last
\* iteration, which raised nothing
AtExportedGroup ==
    /\ pc = "export"
    /\ pos > 0
    /\ Qualifies(contacts[items[pos]])
    /\ Resolvable(contacts[items[pos]])
    /\ contacts[items[pos]].members # <<>>
    /\ group_meta # None

\* the groups among the contacts
Groups == {g \in Elems(Values) : g.is_group}

\* C4 as claimed: the other_groups of a member other than the owner never
\* names a group whose member list holds the owner's service id (a group is
\* told by its name when no other group bears it).
C4_Original ==
    [][ ExportedStep =>
          LET k == items[pos']
              c == contacts[k]
              gm == Val(group_meta')
          IN \A i \in 1..Len(c.members) :
                Some(c.members[i]) # owner.serviceId =>
                  \A g \in Groups :
                     ( /\ c.members[i] \in Elems(g.members)
                       /\ Val(owner.serviceId) \in Elems(g.members)
                       /\ \A h \in Groups : h.name = g.name => h = g )
                     => g.name \notin Elems(gm.members[i].other_groups) ]_vars

\* C4 amended: the owner's own entry has an empty other_groups; the
\* other_groups of any other member names every group other than the current
\* one that lists the member, the groups that list the owner included.
C4_OwnerEntryRedacted ==
    [][ ExportedStep =>
          LET k == items[pos']
              c == contacts[k]
              gm == Val(group_meta')
          IN /\ Len(gm.members) = Len(c.members)
             /\ \A i \in 1..Len(c.members) :
                  IF Some(c.members[i]) = owner.serviceId
                  THEN gm.members[i].other_groups = <<>>
                  ELSE \A g \in Groups :
                         (g.id # k /\ c.members[i] \in Elems(g.members))
                         => g.name \in Elems(gm.members[i].other_groups) ]_vars

\* C4 witness: a group that lists the owner and another member has been
\* exported, and that member's other_groups names another group that lists
\* the member and the owner.
C4_Witness ==
    /\ AtExportedGroup
    /\ LET k == items[pos]
           c == contacts[k]
           gm == Val(group_meta)
       IN /\ Val(owner.serviceId) \in Elems(c.members)
          /\ \E i \in 1..Len(c.members) :
                /\ Some(c.members[i]) # owner.serviceId
                /\ \E g \in Groups :
                      /\ g.id # k
                      /\ g.name # c.name
                      /\ c.members[i] \in Elems(g.members)
                      /\ Val(owner.serviceId) \in Elems(g.members)
                      /\ g.name \in Elems(gm.members[i].other_groups)

\* C5 as claimed: every entry of a member's other_groups is the name of a
\* group that is a group, is named in the restriction list when there is
\* one, has another id than the current group, and lists the member.
C5_Original ==
    [][ ExportedStep =>
          LET k == items[pos']
              c == contacts[k]
              gm == Val(group_meta')
          IN \A i \in 1..Len(c.members) :
               \A n \in Elems(gm.members[i].other_groups) :
                 \E g \in Elems(Values) :
                    /\ g.is_group
                    /\ IF include_chats = None THEN TRUE
                       ELSE InList(g.name, Val(include_chats))
                    /\ g.id # k
                    /\ c.members[i] \in Elems(g.members)
                    /\ g.name = n ]_vars

\* C5 amended: every entry of a member's other_groups is the name of a
\* contact that is a group, named in the restriction list or not, has
\* another id than the current group, and lists the member.
C5_OtherGroupsAreOtherGroupsOfMember ==
    [][ ExportedStep =>
          LET k == items[pos']
              c == contacts[k]
              gm == Val(group_meta')
          IN \A i \in 1..Len(c.members) :
               \A n \in Elems(gm.members[i].other_groups) :
                 \E g \in Elems(Values) :
                    /\ g.is_group
                    /\ g.id # k
                    /\ c.members[i] \in Elems(g.members)
                    /\ g.name = n ]_vars

\* C5 witness: under a restriction list, a group has been exported with a
\* member whose other_groups names a group that the list leaves out.
C5_Witness ==
    /\ AtExportedGroup
    /\ include_chats # None
    /\ LET gm == Val(group_meta)
       IN \E i \in 1..Len(gm.members) :
            \E n \in Elems(gm.members[i].other_groups) :
               ~InList(n, Val(include_chats))

\* C8: a group without resolved members makes the export raise, and no
\* members.csv exists that was opened for writing and holds no row.
C8_NoEmptyMembersFile ==
    /\ \A f \in DOMAIN files : f[2] = "members.csv" => files[f].rows # <<>>
    /\ ( /\ pos > 0
         /\ Qualifies(contacts[items[pos]])
         /\ contacts[items[pos]].members = <<>> ) => pc = "error"


---------------------------------------------------------------------------
(* Properties of fetch_data. *)

\* an iteration of the message loop has just run
IngestStep == pc = "messages" /\ nMsg' = nMsg + 1

\* an iteration of the conversation loop has just run
NormalizeStep == pc = "conversations" /\ nConv' = nConv + 1

\* result holds a message row that the loop has processed
AtMessageRow == pc \in {"messages", "error"} /\ nMsg > 0

\* the iteration appended the message built from row to the bucket of cid and
\* changed no other bucket
AppendedTo(cid, row) ==
    /\ DOMAIN convos' = DOMAIN convos
    /\ Len(convos'[cid]) = Len(convos[cid]) + 1
    /\ SubSeq(convos'[cid], 1, Len(convos[cid])) = convos[cid]
    /\ convos'[cid][Len(convos'[cid])].id = row.id
    /\ convos'[cid][Len(convos'[cid])].conversation_id = cid
    /\ \A other \in DOMAIN convos \ {cid} : convos'[other] = convos[other]

\* C1: no message whose type is 'keychange', 'profile-change' or null is ever
\* in a bucket of convos, during ingestion or in the returned map, whatever
\* the rows, the flags and the chat filter.
C1_NoExcludedTypeInBuckets ==
    \A cid \in DOMAIN convos : \A i \in 1..Len(convos[cid]) :
        /\ convos[cid][i].type # None
        /\ convos[cid][i].type # Some("keychange")
        /\ convos[cid][i].type # Some("profile-change")

\* C1 witness: a 'keychange' row addressed to a retained conversation, and
\* acceptable otherwise, was the last row processed, and fetch_data has
\* returned a map that holds the earlier messages of that conversation.
C1_Witness ==
    /\ pc = "done"
    /\ nMsg = MaxMsgRows
    /\ Val(result).type = Some("keychange")
    /\ Val(result).conversationId \in DOMAIN convos
    /\ Val(result).expireTimer = None
    /\ Len(convos[Val(result).conversationId]) = MaxMsgRows - 1

\* C2 as claimed: a processed row whose conversation id is in the retained
\* set and whose type is not excluded is appended iff include_disappearing
\* when its timer is non-zero, and appended in any case when its timer is
\* zero or absent (in an iteration that does not raise).
C2_Original ==
    [][ IngestStep /\ pc' # "error" =>
          LET row == Val(result') IN
          ( /\ row.conversationId \in DOMAIN convos
            /\ row.type \notin {None, Some("keychange"), Some("profile-change")} )
          => IF row.expireTimer \notin {None, Some(0)}
             THEN AppendedTo(row.conversationId, row) <=> include_disappearing
             ELSE AppendedTo(row.conversationId, row) ]_vars

\* C2 amended: the same, for a row whose conversation id is not the empty
\* string, and a row that is not appended leaves convos unchanged; a row
\* whose conversation id is the empty string is dropped.
C2_DisappearingIffFlag ==
    [][ IngestStep /\ pc' # "error" =>
          LET row == Val(result') IN
          /\ ( /\ row.conversationId \in DOMAIN convos
               /\ row.conversationId # Some(<<>>)
               /\ row.type \notin {None, Some("keychange"), Some("profile-change")} )
             => /\ IF row.expireTimer \notin {None, Some(0)}
                   THEN AppendedTo(row.conversationId, row) <=> include_disappearing
                   ELSE AppendedTo(row.conversationId, row)
                /\ AppendedTo(row.conversationId, row) \/ convos' = convos
          /\ row.conversationId = Some(<<>>) => convos' = convos ]_vars

\* C2 witness: a row with a non-zero timer has been appended to its bucket
\* under include_disappearing.
C2_Witness ==
    /\ AtMessageRow
    /\ pc = "messages"
    /\ include_disappearing
    /\ Val(result).expireTimer = Some(30)
    /\ Val(result).conversationId \in DOMAIN convos
    /\ Len(convos[Val(result).conversationId]) > 0
    /\ LET bucket == convos[Val(result).conversationId]
       IN bucket[Len(bucket)].id = Val(result).id

\* C3 as claimed: a row whose conversation id is null or not in the retained
\* set raises nothing and changes no bucket, whatever else it holds.
C3_Original ==
    [][ IngestStep =>
          LET row == Val(result') IN
          (row.conversationId = None \/ row.conversationId \notin DOMAIN convos)
          => pc' = "messages" /\ err' = None /\ convos' = convos ]_vars

\* C3 amended: such a row changes no bucket; it raises nothing when its
\* payload decodes, and raises the decoding error when it does not, the
\* payload being decoded before the conversation id is looked at.
C3_UnknownConversationDropped ==
    [][ IngestStep =>
          LET row == Val(result') IN
          (row.conversationId = None \/ row.conversationId \notin DOMAIN convos)
          => /\ convos' = convos
             /\ row.json.kind = "object" => pc' = "messages" /\ err' = None
             /\ row.json.kind = "malformed"
                  => pc' = "error" /\ err' = Some("JSONDecodeError") ]_vars

\* C3 witness: after a first row was accepted, a row of an unknown
\* conversation, acceptable otherwise, has been dropped without an error and
\* the bucket is as it was.
C3_Witness ==
    /\ pc = "messages"
    /\ err = None
    /\ nMsg = MaxMsgRows
    /\ Val(result).conversationId = Some(<<"9">>)
    /\ Val(result).conversationId \notin DOMAIN convos
    /\ Val(result).type = Some("incoming")
    /\ Val(result).json.kind = "object"
    /\ Some(<<"1">>) \in DOMAIN convos
    /\ Len(convos[Some(<<"1">>)]) = MaxMsgRows - 1

\* C6 as claimed: a row whose primary name is null or the empty string and
\* whose profile name is non-empty gets the profile name; a row with a
\* non-empty primary name keeps it.
C6_Original ==
    [][ NormalizeStep =>
          LET row == Val(result') IN
          /\ (row.name \in {None, Some(<<>>)} /\ TruthyStr(row.profileName))
               => contacts'[row.id].name = row.profileName
          /\ TruthyStr(row.name) => contacts'[row.id].name = row.name ]_vars

\* C6 amended: a row whose primary name is null gets the profile name field
\* (null when that is null too); a row whose primary name is not null, the
\* empty string included, keeps its primary name.
C6_NameFallback ==
    [][ NormalizeStep =>
          LET row == Val(result') IN
          /\ row.name = None => contacts'[row.id].name = row.profileName
          /\ row.name # None => contacts'[row.id].name = row.name
          /\ contacts'[row.id].profile_name = row.profileName ]_vars

\* C6 witness: a row with a null primary name and a profile name has been
\* normalized into a Contact named by the profile name.
C6_Witness ==
    /\ pc = "conversations"
    /\ nConv > 0
    /\ Val(result).name = None
    /\ Val(result).profileName = Some(<<"B">>)
    /\ contacts[Val(result).id].name = Some(<<"B">>)

\* C7: without include_empty the returned map holds exactly the conversations
\* whose bucket is non-empty, each with its bucket as it was; with
\* include_empty it is the map as it was; pruning the result again changes
\* nothing.
C7_Pruned ==
    [][ pc = "messages" /\ pc' = "done" =>
          /\ include_empty => convos' = convos
          /\ ~include_empty =>
               /\ DOMAIN convos' = {cid \in DOMAIN convos : Len(convos[cid]) >= 1}
               /\ \A cid \in DOMAIN convos' : convos'[cid] = convos[cid]
          /\ Prune(convos', include_empty) = convos' ]_vars

\* C7 witness: fetch_data has returned, without include_empty and without a
\* chat filter, a map that holds one conversation with its messages and has
\* lost another, which received none.
C7_Witness ==
    /\ pc = "done"
    /\ ~include_empty
    /\ chats = <<>>
    /\ DOMAIN convos # {}
    /\ DOMAIN contacts \ DOMAIN convos # {}
    /\ \A cid \in DOMAIN convos : Len(convos[cid]) >= 1

IsPrefix(s, t) == Len(s) <= Len(t) /\ s = SubSeq(t, 1, Len(s))

\* C9 as claimed: page size, kdf iterations, HMAC algorithm, kdf algorithm,
\* then the key, then the queries.
C9_Original ==
    IsPrefix(executed,
             << "PRAGMA cipher_page_size = 4096",
                "PRAGMA kdf_iter = 64000",
                "PRAGMA cipher_hmac_algorithm = HMAC_SHA512",
                "PRAGMA cipher_kdf_algorithm = PBKDF2_HMAC_SHA512",
                "PRAGMA KEY",
                SelectConversations, SelectMessages >>)

\* C9 amended: the key is issued first, then page size, kdf iterations, HMAC
\* algorithm and kdf algorithm, and only then the two queries.
C9_KeyFirstThenCipherSettings ==
    IsPrefix(executed,
             << "PRAGMA KEY",
                "PRAGMA cipher_page_size = 4096",
                "PRAGMA kdf_iter = 64000",
                "PRAGMA cipher_hmac_algorithm = HMAC_SHA512",
                "PRAGMA cipher_kdf_algorithm = PBKDF2_HMAC_SHA512",
                SelectConversations, SelectMessages >>)

\* C9 witness: both queries have been executed.
C9_Witness ==
    /\ pc = "messages"
    /\ Len(executed) = Len(SessionStatements) + 2
    /\ executed[Len(executed)] = SelectMessages

\* C10: fetch_data never returns or raises with the store handle open.
C10_HandleReleasedOnExit ==
    pc \in {"done", "error"} => ~dbOpen

====
